---------------------------- MODULE Spec2Model ----------------------------
(***************************************************************************)
(* PromptBuilder frontend (src/frontend/src/App.tsx, api.ts): the answer   *)
(* store, the required-field validator and the sequential auto-fill loop   *)
(* of the App component, as a state machine over the component's React     *)
(* state and the remote calls in flight.                                   *)
(*                                                                         *)
(* JavaScript values are records [t |-> tag, v |-> payload]; the payload   *)
(* is always a sequence of one-character strings (the characters of a      *)
(* string, the digits of a number, the elements of an array of choices),   *)
(* so that String(), trim() and Array.isArray() are computed, not assumed. *)
(***************************************************************************)
EXTENDS Integers, Sequences, FiniteSets, TLC

(***************************************************************************)
(* Bounds of the model.                                                    *)
(***************************************************************************)
MaxQ == 3          \* longest schema the question service returns
MaxCommands == 4   \* user commands (typing, clicks, edits) per behaviour
PureMaxQ == 1      \* longest schema of the pure-function specification
ToggleMaxLen == 3  \* longest stored array of the toggle specification

(***************************************************************************)
(* JavaScript values.                                                      *)
(***************************************************************************)
Str(s) == [t |-> "str", v |-> s]
Num(d) == [t |-> "num", v |-> d]
Arr(a) == [t |-> "arr", v |-> a]
Bool(b) == [t |-> "bool", v |-> IF b THEN <<"1">> ELSE <<"0">>]
Null == [t |-> "null", v |-> <<>>]
Undefined == [t |-> "undef", v |-> <<>>]
EmptyStr == Str(<<>>)
EmptyArr == Arr(<<>>)

IsArray(val) == val.t = "arr"

\* answers[id]: reading a key the object does not have yields undefined
Get(store, id) == IF id \in DOMAIN store THEN store[id] ELSE Undefined

\* { ...store, [id]: val }
Put(store, id, val) ==
    [k \in (DOMAIN store) \cup {id} |-> IF k = id THEN val ELSE store[k]]

EmptyObj == [k \in {} |-> Null]

\* Array.prototype.join(",") over an array of one-character strings
RECURSIVE Join(_)
Join(a) ==
    IF Len(a) = 0 THEN <<>>
    ELSE IF Len(a) = 1 THEN <<a[1]>>
    ELSE <<a[1], ",">> \o Join(Tail(a))

\* String(val)
StringOf(val) ==
    CASE val.t = "str" -> val.v
      [] val.t = "num" -> val.v
      [] val.t = "bool" -> IF val.v = <<"1">> THEN <<"t", "r", "u", "e">>
                                             ELSE <<"f", "a", "l", "s", "e">>
      [] val.t = "arr" -> Join(val.v)
      [] val.t = "null" -> <<"n", "u", "l", "l">>
      [] OTHER -> <<"u", "n", "d", "e", "f", "i", "n", "e", "d">>

WhiteSpace == {" "}

RECURSIVE TrimLeft(_)
TrimLeft(s) ==
    IF Len(s) > 0 /\ s[1] \in WhiteSpace THEN TrimLeft(Tail(s)) ELSE s

RECURSIVE TrimRight(_)
TrimRight(s) ==
    IF Len(s) > 0 /\ s[Len(s)] \in WhiteSpace
    THEN TrimRight(SubSeq(s, 1, Len(s) - 1)) ELSE s

\* String.prototype.trim()
Trim(s) == TrimRight(TrimLeft(s))

(***************************************************************************)
(* cleanAnswers (App.tsx 7-14): the entries the filter keeps.              *)
(***************************************************************************)
\* Keeps without the comparison with null
KeepsNoNullCheck(val) ==
    IF IsArray(val) THEN Len(val.v) > 0
    ELSE val # EmptyStr /\ val # Undefined

Keeps(val) ==
    IF IsArray(val) THEN Len(val.v) > 0
    ELSE val # EmptyStr /\ val # Null /\ val # Undefined

cleanAnswers(store) ==
    [k \in {id \in DOMAIN store : Keeps(store[id])} |-> store[k]]

(***************************************************************************)
(* Questions (api.ts 6-21).  required is "true", "false" or "unset" (the   *)
(* field is optional); choices is the list of a select question.           *)
(***************************************************************************)
QuestionTypes ==
    {"text", "textarea", "single_select", "multi_select", "boolean", "number"}

Choices == <<"a", "b">>

Question(id, type, required) ==
    [id |-> id, type |-> type, required |-> required,
     choices |-> IF type \in {"single_select", "multi_select"}
                 THEN Choices ELSE <<>>]

\* !q.required is false only for required: true
IsRequired(q) == q.required = "true"

(***************************************************************************)
(* requiredMissing (App.tsx 74-89): the ids pushed onto missing, in schema *)
(* order.                                                                  *)
(***************************************************************************)
\* IsMissing without the boolean branch
IsMissingBooleanChecked(q, val) ==
    IF ~IsRequired(q) THEN FALSE
    ELSE IF q.type = "multi_select" THEN ~IsArray(val) \/ Len(val.v) = 0
    ELSE val = Null \/ val = Undefined \/ Trim(StringOf(val)) = <<>>

\* IsMissing without the trim
IsMissingNoTrim(q, val) ==
    IF ~IsRequired(q) THEN FALSE
    ELSE IF q.type = "multi_select" THEN ~IsArray(val) \/ Len(val.v) = 0
    ELSE IF q.type = "boolean" THEN FALSE
    ELSE val = Null \/ val = Undefined \/ StringOf(val) = <<>>

IsMissing(q, val) ==
    IF ~IsRequired(q) THEN FALSE
    ELSE IF q.type = "multi_select" THEN ~IsArray(val) \/ Len(val.v) = 0
    ELSE IF q.type = "boolean" THEN FALSE
    ELSE val = Null \/ val = Undefined \/ Trim(StringOf(val)) = <<>>

RECURSIVE requiredMissing(_, _)
requiredMissing(qs, store) ==
    IF Len(qs) = 0 THEN <<>>
    ELSE (IF IsMissing(qs[1], Get(store, qs[1].id)) THEN <<qs[1].id>> ELSE <<>>)
         \o requiredMissing(Tail(qs), store)

Range(seq) == {seq[k] : k \in DOMAIN seq}

(***************************************************************************)
(* The inputs of the model: what the services return and what the user     *)
(* types.                                                                  *)
(***************************************************************************)
\* the questions the question service draws its schemas from
Pool ==
    << Question("q1", "text", "true"),
       Question("q2", "multi_select", "true"),
       Question("q3", "boolean", "true"),
       Question("q4", "single_select", "false"),
       Question("q5", "number", "unset"),
       Question("q6", "textarea", "false") >>

\* GenerateQuestionsResponse.questions: at most MaxQ consecutive questions of
\* Pool starting at one of SchemaStarts (ids unique within a schema), the empty
\* list included
SchemaStarts == {1, 4}

Schemas ==
    {SubSeq(Pool, w[1], w[2]) :
        w \in {x \in SchemaStarts \X (0..Len(Pool)) :
                  x[1] - 1 <= x[2] /\ x[2] - x[1] < MaxQ}}

IdeaTexts == {<<" ">>, <<"a", "b", "c">>}

\* SuggestAnswerResponse.value is any: here an answer of the asked question's
\* type, or that type's empty value
SuggestValues(q) ==
    CASE q.type = "multi_select" -> {Arr(<<q.choices[1]>>), EmptyArr}
      [] q.type = "boolean" -> {Bool(TRUE), Null}
      [] OTHER -> {Str(<<"s">>), EmptyStr}

\* what a rejected remote call throws: an Error with a message, or a value
\* without one
Failures == {[hasMessage |-> TRUE, message |-> "Backend error"]}

Prompts == {"prompt"}

NoError == "null"

\* e?.message ?? fallback
MessageOf(e, fallback) == IF e.hasMessage THEN e.message ELSE fallback

\* the values renderInput passes to setAnswer for a question (App.tsx 91-181)
InputValues(q) ==
    CASE q.type \in {"text", "textarea"} -> {EmptyStr, Str(<<" ">>), Str(<<"x">>)}
      [] q.type = "number" -> {EmptyStr, Num(<<"0">>)}
      [] q.type = "boolean" -> {Bool(TRUE), Bool(FALSE)}
      [] q.type = "single_select" -> {Str(<<q.choices[k]>>) : k \in DOMAIN q.choices}
      [] OTHER -> {}

(***************************************************************************)
(* State.                                                                  *)
(***************************************************************************)
VARIABLES
    idea,              \* useState: the idea text
    questions,         \* useState: the schema
    answers,           \* useState: the Answer Store
    finalPrompt,       \* useState
    autoFillLoading,   \* useState
    autoFillProgress,  \* useState: [done, total]
    loadingQuestions,  \* useState
    loadingPrompt,     \* useState
    error,             \* useState: the last-error slot
    run,               \* the onAutoFillAll invocation: its position and locals
    schemaCalls,       \* generateQuestions requests in flight
    suggestCalls,      \* suggestAnswer requests in flight
    promptCalls,       \* generatePrompt requests in flight
    callLog,           \* indices of the questions the current run asked about
    mergeLog,          \* responses merged by the current run
    hist,              \* what happened around the current run (see NoHist)
    used,              \* how many user commands were issued
    out                \* result of the last pure-function evaluation (SpecPure)

vars == <<idea, questions, answers, finalPrompt, autoFillLoading,
          autoFillProgress, loadingQuestions, loadingPrompt, error, run,
          schemaCalls, suggestCalls, promptCalls, callLog, mergeLog, hist,
          used, out>>

ui == <<idea, questions, answers, finalPrompt, autoFillLoading,
        autoFillProgress, loadingQuestions, loadingPrompt, error>>

net == <<schemaCalls, suggestCalls, promptCalls>>

logs == <<callLog, mergeLog>>

\* the invocation's locals exist from the click to the return; once it has
\* returned only the phase it ended in is kept
Returned(phase) ==
    [pc |-> phase, qs |-> <<>>, idea |-> <<>>, working |-> EmptyObj, i |-> 0]

IdleRun == Returned("idle")

Running == run.pc \in {"loop", "awaiting"}

\* History of the current run, for the properties only (no action reads it):
\*   blank       the store held no answer when the run started
\*   superseded  "Generate Questions" was clicked while the run was suspended
\*   edited      ids the user edited since the outstanding request was sent
\*   prior       the schema and the store as they were when the outstanding
\*               "Generate Questions" was clicked
NoPrior == [questions |-> <<>>, answers |-> EmptyObj]

NoHist == [blank |-> FALSE, superseded |-> FALSE, edited |-> {}, prior |-> NoPrior]

NoOut == [op |-> "none", cleaned |-> EmptyObj, missing |-> <<>>]

Init ==
    /\ idea = <<>>
    /\ questions = <<>>
    /\ answers = EmptyObj
    /\ finalPrompt = ""
    /\ autoFillLoading = FALSE
    /\ autoFillProgress = [done |-> 0, total |-> 0]
    /\ loadingQuestions = FALSE
    /\ loadingPrompt = FALSE
    /\ error = NoError
    /\ run = IdleRun
    /\ schemaCalls = {}
    /\ suggestCalls = {}
    /\ promptCalls = {}
    /\ callLog = <<>>
    /\ mergeLog = <<>>
    /\ hist = NoHist
    /\ used = 0
    /\ out = NoOut

\* JavaScript runs a handler to its next await before any other handler: while
\* the auto-fill loop is between two awaits nothing else is scheduled
Quiet == run.pc # "loop"

(***************************************************************************)
(* onGenerateQuestions (App.tsx 35-59).  The button is disabled while      *)
(* loadingQuestions or the trimmed idea is shorter than 3 (App.tsx 278).   *)
(***************************************************************************)
\* InitialAnswers seeding null whatever the type
InitialAnswersNullForAll(qs, initial) ==
    [id \in {qs[k].id : k \in DOMAIN qs} |-> Null]

RECURSIVE InitialAnswers(_, _)
InitialAnswers(qs, initial) ==
    IF Len(qs) = 0 THEN initial
    ELSE InitialAnswers(Tail(qs),
            Put(initial, qs[1].id,
                IF qs[1].type = "multi_select" THEN EmptyArr
                ELSE IF qs[1].type = "boolean" THEN Null
                ELSE EmptyStr))

\* the textarea of the idea (App.tsx 263-265)
SetIdea(text) ==
    /\ Quiet
    /\ used < MaxCommands
    /\ idea # text
    /\ idea' = text
    /\ used' = used + 1
    /\ UNCHANGED <<questions, answers, finalPrompt, autoFillLoading,
                   autoFillProgress, loadingQuestions, loadingPrompt, error,
                   run, net, logs, hist, out>>

\* lines 36-43: the resets, then the request
onGenerateQuestions ==
    /\ Quiet
    /\ used < MaxCommands
    /\ ~loadingQuestions
    /\ Len(Trim(idea)) >= 3
    /\ error' = NoError
    /\ questions' = <<>>
    /\ answers' = EmptyObj
    /\ finalPrompt' = ""
    /\ loadingQuestions' = TRUE
    /\ schemaCalls' = schemaCalls \cup {[description |-> Trim(idea)]}
    /\ used' = used + 1
    /\ hist' = [hist EXCEPT
                   !.superseded = IF Running THEN TRUE ELSE @,
                   !.edited = IF Running THEN {} ELSE @,
                   !.prior = [questions |-> questions, answers |-> answers]]
    /\ UNCHANGED <<idea, autoFillLoading, autoFillProgress, loadingPrompt, run,
                   suggestCalls, promptCalls, logs, out>>

\* lines 44-53, 57: the response
GenerateQuestionsResolved(call, schema) ==
    /\ Quiet
    /\ call \in schemaCalls
    /\ schemaCalls' = schemaCalls \ {call}
    /\ questions' = schema
    /\ answers' = InitialAnswers(schema, EmptyObj)
    /\ loadingQuestions' = FALSE
    /\ hist' = [hist EXCEPT !.edited = {}, !.prior = NoPrior]
    /\ UNCHANGED <<idea, finalPrompt, autoFillLoading, autoFillProgress,
                   loadingPrompt, error, run, suggestCalls, promptCalls, logs,
                   used, out>>

\* lines 54-57: catch and finally
GenerateQuestionsRejected(call, e) ==
    /\ Quiet
    /\ call \in schemaCalls
    /\ schemaCalls' = schemaCalls \ {call}
    /\ error' = MessageOf(e, "Unknown error")
    /\ loadingQuestions' = FALSE
    /\ hist' = [hist EXCEPT !.prior = NoPrior]
    /\ UNCHANGED <<idea, questions, answers, finalPrompt, autoFillLoading,
                   autoFillProgress, loadingPrompt, run, suggestCalls,
                   promptCalls, logs, used, out>>

(***************************************************************************)
(* setAnswer, toggleMulti (App.tsx 61-72), called by the inputs that       *)
(* renderInput draws for the questions of the current schema.              *)
(***************************************************************************)
Edited(id) ==
    IF run.pc = "awaiting" THEN [hist EXCEPT !.edited = @ \cup {id}] ELSE hist

setAnswer(id, value) ==
    /\ Quiet
    /\ used < MaxCommands
    /\ answers' = Put(answers, id, value)
    /\ used' = used + 1
    /\ hist' = Edited(id)
    /\ UNCHANGED <<idea, questions, finalPrompt, autoFillLoading,
                   autoFillProgress, loadingQuestions, loadingPrompt, error,
                   run, net, logs, out>>

\* Toggled that adds the choice whether or not it is there
ToggledAlwaysAdds(prev, id, choice) ==
    LET current == IF IsArray(Get(prev, id)) THEN Get(prev, id).v ELSE <<>>
    IN  Arr(Append(current, choice))

\* the value toggleMulti stores under id
Toggled(prev, id, choice) ==
    LET current == IF IsArray(Get(prev, id)) THEN Get(prev, id).v ELSE <<>>
        exists == choice \in Range(current)
    IN  Arr(IF exists THEN SelectSeq(current, LAMBDA c : c # choice)
            ELSE Append(current, choice))

toggleMulti(id, choice) ==
    /\ Quiet
    /\ used < MaxCommands
    /\ answers' = Put(answers, id, Toggled(answers, id, choice))
    /\ used' = used + 1
    /\ hist' = Edited(id)
    /\ UNCHANGED <<idea, questions, finalPrompt, autoFillLoading,
                   autoFillProgress, loadingQuestions, loadingPrompt, error,
                   run, net, logs, out>>

\* renderInput (App.tsx 91-181): which call each input makes
UserEdit ==
    \E k \in DOMAIN questions :
        LET q == questions[k] IN
        \/ \E value \in InputValues(q) : setAnswer(q.id, value)
        \/ /\ q.type = "multi_select"
           /\ \E c \in Range(q.choices) : toggleMulti(q.id, c)

(***************************************************************************)
(* onAutoFillAll (App.tsx 211-251).  The button is disabled while          *)
(* autoFillLoading (App.tsx 305).  The handler runs from one await to the  *)
(* next without interruption: run.pc = "loop" is the loop between awaits,  *)
(* one step per iteration, and "awaiting" is the await of suggestAnswer.   *)
(***************************************************************************)
\* hasValue without the boolean branch
hasValueBooleanToo(q, existing) ==
    \/ IsArray(existing) /\ Len(existing.v) > 0
    \/ ~IsArray(existing) /\ existing # EmptyStr /\ existing # Null
                          /\ existing # Undefined

\* hasValue (App.tsx 226-231)
hasValue(q, existing) ==
    IF q.type = "boolean" THEN FALSE
    ELSE \/ IsArray(existing) /\ Len(existing.v) > 0
         \/ ~IsArray(existing) /\ existing # EmptyStr /\ existing # Null
                               /\ existing # Undefined

\* onAutoFillAll with a button that autoFillLoading does not disable
onAutoFillAllReentrant ==
    /\ Quiet
    /\ used < MaxCommands
    /\ used' = used + 1
    /\ IF Trim(idea) = <<>> \/ Len(questions) = 0
       THEN UNCHANGED <<ui, run, logs, hist>>
       ELSE /\ error' = NoError
            /\ autoFillLoading' = TRUE
            /\ autoFillProgress' = [done |-> 0, total |-> Len(questions)]
            /\ run' = [pc |-> "loop", qs |-> questions, idea |-> Trim(idea),
                       working |-> answers, i |-> 0]
            /\ callLog' = <<>>
            /\ mergeLog' = <<>>
            /\ hist' = [blank |-> cleanAnswers(answers) = EmptyObj,
                        superseded |-> FALSE, edited |-> {}, prior |-> hist.prior]
            /\ UNCHANGED <<idea, questions, answers, finalPrompt,
                           loadingQuestions, loadingPrompt>>
    /\ UNCHANGED <<net, out>>

\* onAutoFillAll without the early return of line 212
onAutoFillAllNoEarlyReturn ==
    /\ Quiet
    /\ used < MaxCommands
    /\ ~autoFillLoading
    /\ used' = used + 1
    /\ error' = NoError
    /\ autoFillLoading' = TRUE
    /\ autoFillProgress' = [done |-> 0, total |-> Len(questions)]
    /\ run' = [pc |-> "loop", qs |-> questions, idea |-> Trim(idea),
               working |-> answers, i |-> 0]
    /\ callLog' = <<>>
    /\ mergeLog' = <<>>
    /\ hist' = [blank |-> cleanAnswers(answers) = EmptyObj,
                superseded |-> FALSE, edited |-> {}, prior |-> hist.prior]
    /\ UNCHANGED <<idea, questions, answers, finalPrompt, loadingQuestions,
                   loadingPrompt, net, out>>

\* lines 212-220: the early return, or the resets and the working copy
onAutoFillAll ==
    /\ Quiet
    /\ used < MaxCommands
    /\ ~autoFillLoading
    /\ used' = used + 1
    /\ IF Trim(idea) = <<>> \/ Len(questions) = 0
       THEN UNCHANGED <<ui, run, logs, hist>>
       ELSE /\ error' = NoError
            /\ autoFillLoading' = TRUE
            /\ autoFillProgress' = [done |-> 0, total |-> Len(questions)]
            /\ run' = [pc |-> "loop", qs |-> questions, idea |-> Trim(idea),
                       working |-> answers, i |-> 0]
            /\ callLog' = <<>>
            /\ mergeLog' = <<>>
            /\ hist' = [blank |-> cleanAnswers(answers) = EmptyObj,
                        superseded |-> FALSE, edited |-> {}, prior |-> hist.prior]
            /\ UNCHANGED <<idea, questions, answers, finalPrompt,
                           loadingQuestions, loadingPrompt>>
    /\ UNCHANGED <<net, out>>

\* AutoFillSkip without the progress report of line 244
AutoFillSkipNoProgress ==
    /\ run.pc = "loop"
    /\ run.i < Len(run.qs)
    /\ hasValue(run.qs[run.i + 1], Get(run.working, run.qs[run.i + 1].id))
    /\ run' = [run EXCEPT !.i = @ + 1]
    /\ UNCHANGED <<ui, net, logs, hist, used, out>>

\* AutoFillSkip without the i++ of the for loop
AutoFillSkipNoAdvance ==
    /\ run.pc = "loop"
    /\ run.i < Len(run.qs)
    /\ hasValue(run.qs[run.i + 1], Get(run.working, run.qs[run.i + 1].id))
    /\ autoFillProgress' = [done |-> run.i + 1, total |-> Len(run.qs)]
    /\ UNCHANGED <<idea, questions, answers, finalPrompt, autoFillLoading,
                   loadingQuestions, loadingPrompt, error, run, net, logs, hist,
                   used, out>>

\* lines 222-233, 244: an answered question is skipped
AutoFillSkip ==
    /\ run.pc = "loop"
    /\ run.i < Len(run.qs)
    /\ hasValue(run.qs[run.i + 1], Get(run.working, run.qs[run.i + 1].id))
    /\ autoFillProgress' = [done |-> run.i + 1, total |-> Len(run.qs)]
    /\ run' = [run EXCEPT !.i = @ + 1]
    /\ UNCHANGED <<idea, questions, answers, finalPrompt, autoFillLoading,
                   loadingQuestions, loadingPrompt, error, net, logs, hist,
                   used, out>>

\* AutoFillAsk without the await: the loop goes on while the request is out
AutoFillAskNoAwait ==
    /\ run.pc = "loop"
    /\ run.i < Len(run.qs)
    /\ ~hasValue(run.qs[run.i + 1], Get(run.working, run.qs[run.i + 1].id))
    /\ suggestCalls' = suggestCalls \cup
            {[idea |-> run.idea, question |-> run.qs[run.i + 1],
              current_answers |-> cleanAnswers(run.working)]}
    /\ callLog' = Append(callLog, run.i)
    /\ run' = [run EXCEPT !.i = @ + 1]
    /\ hist' = [hist EXCEPT !.edited = {}]
    /\ UNCHANGED <<ui, schemaCalls, promptCalls, mergeLog, used, out>>

\* lines 234-238: the request is sent and the handler suspends
AutoFillAsk ==
    /\ run.pc = "loop"
    /\ run.i < Len(run.qs)
    /\ ~hasValue(run.qs[run.i + 1], Get(run.working, run.qs[run.i + 1].id))
    /\ suggestCalls' = suggestCalls \cup
            {[idea |-> run.idea, question |-> run.qs[run.i + 1],
              current_answers |-> cleanAnswers(run.working)]}
    /\ callLog' = Append(callLog, run.i)
    /\ run' = [run EXCEPT !.pc = "awaiting"]
    /\ hist' = [hist EXCEPT !.edited = {}]
    /\ UNCHANGED <<ui, schemaCalls, promptCalls, mergeLog, used, out>>

\* SuggestResolved that writes the store but not the working copy
SuggestResolvedNoCarry(call, res) ==
    /\ run.pc = "awaiting"
    /\ call \in suggestCalls
    /\ suggestCalls' = suggestCalls \ {call}
    /\ run' = [run EXCEPT !.i = @ + 1, !.pc = "loop"]
    /\ answers' = Put(run.working, res.id, res.value)
    /\ autoFillProgress' = [done |-> run.i + 1, total |-> Len(run.qs)]
    /\ mergeLog' = Append(mergeLog, [i |-> run.i, id |-> res.id, value |-> res.value])
    /\ hist' = [hist EXCEPT !.edited = {}]
    /\ UNCHANGED <<idea, questions, finalPrompt, autoFillLoading,
                   loadingQuestions, loadingPrompt, error, schemaCalls,
                   promptCalls, callLog, used, out>>

\* lines 240-244: the response is merged, the progress reported
SuggestResolved(call, res) ==
    /\ run.pc = "awaiting"
    /\ call \in suggestCalls
    /\ suggestCalls' = suggestCalls \ {call}
    /\ LET workingAnswers == Put(run.working, res.id, res.value)
       IN  /\ run' = [run EXCEPT !.working = workingAnswers, !.i = @ + 1,
                                 !.pc = "loop"]
           /\ answers' = workingAnswers
    /\ autoFillProgress' = [done |-> run.i + 1, total |-> Len(run.qs)]
    /\ mergeLog' = Append(mergeLog, [i |-> run.i, id |-> res.id, value |-> res.value])
    /\ hist' = [hist EXCEPT !.edited = {}]
    /\ UNCHANGED <<idea, questions, finalPrompt, autoFillLoading,
                   loadingQuestions, loadingPrompt, error, schemaCalls,
                   promptCalls, callLog, used, out>>

\* SuggestRejected that counts the failed question as processed
SuggestRejectedCounted(call, e) ==
    /\ run.pc = "awaiting"
    /\ call \in suggestCalls
    /\ suggestCalls' = suggestCalls \ {call}
    /\ error' = MessageOf(e, "Unknown error during auto-fill")
    /\ autoFillLoading' = FALSE
    /\ autoFillProgress' = [done |-> run.i + 1, total |-> Len(run.qs)]
    /\ run' = Returned("aborted")
    /\ callLog' = <<>>
    /\ mergeLog' = <<>>
    /\ hist' = [NoHist EXCEPT !.prior = hist.prior]
    /\ UNCHANGED <<idea, questions, answers, finalPrompt, loadingQuestions,
                   loadingPrompt, schemaCalls, promptCalls, used, out>>

\* lines 246-250: catch and finally
SuggestRejected(call, e) ==
    /\ run.pc = "awaiting"
    /\ call \in suggestCalls
    /\ suggestCalls' = suggestCalls \ {call}
    /\ error' = MessageOf(e, "Unknown error during auto-fill")
    /\ autoFillLoading' = FALSE
    /\ run' = Returned("aborted")
    /\ callLog' = <<>>
    /\ mergeLog' = <<>>
    /\ hist' = [NoHist EXCEPT !.prior = hist.prior]
    /\ UNCHANGED <<idea, questions, answers, finalPrompt, autoFillProgress,
                   loadingQuestions, loadingPrompt, schemaCalls, promptCalls,
                   used, out>>

\* lines 222, 248-250: the loop ends, finally
AutoFillDone ==
    /\ run.pc = "loop"
    /\ run.i >= Len(run.qs)
    /\ autoFillLoading' = FALSE
    /\ run' = Returned("completed")
    /\ callLog' = <<>>
    /\ mergeLog' = <<>>
    /\ hist' = [NoHist EXCEPT !.prior = hist.prior]
    /\ UNCHANGED <<idea, questions, answers, finalPrompt, autoFillProgress,
                   loadingQuestions, loadingPrompt, error, net, used, out>>

\* SuggestAnswerResponse (api.ts 45-48): the id is whatever the service
\* sends, here the id of any question of the schema the run works on
SuggestResponses(call) ==
    [id : {run.qs[k].id : k \in DOMAIN run.qs}, value : SuggestValues(call.question)]

(***************************************************************************)
(* onGeneratePrompt (App.tsx 183-200).  The button is drawn with the       *)
(* questions and disabled while loadingPrompt or a required answer is      *)
(* missing (App.tsx 300, 372).                                             *)
(***************************************************************************)
\* onGeneratePrompt with a button that the missing answers do not disable
onGeneratePromptUngated ==
    /\ Quiet
    /\ used < MaxCommands
    /\ Len(questions) > 0
    /\ ~loadingPrompt
    /\ error' = NoError
    /\ finalPrompt' = ""
    /\ loadingPrompt' = TRUE
    /\ promptCalls' = promptCalls \cup
            {[idea |-> Trim(idea), answers |-> cleanAnswers(answers)]}
    /\ used' = used + 1
    /\ UNCHANGED <<idea, questions, answers, autoFillLoading, autoFillProgress,
                   loadingQuestions, run, schemaCalls, suggestCalls, logs,
                   hist, out>>

\* lines 184-193: the resets, then the request with the cleaned answers
onGeneratePrompt ==
    /\ Quiet
    /\ used < MaxCommands
    /\ Len(questions) > 0
    /\ ~loadingPrompt
    /\ Len(requiredMissing(questions, answers)) = 0
    /\ error' = NoError
    /\ finalPrompt' = ""
    /\ loadingPrompt' = TRUE
    /\ promptCalls' = promptCalls \cup
            {[idea |-> Trim(idea), answers |-> cleanAnswers(answers)]}
    /\ used' = used + 1
    /\ UNCHANGED <<idea, questions, answers, autoFillLoading, autoFillProgress,
                   loadingQuestions, run, schemaCalls, suggestCalls, logs,
                   hist, out>>

\* lines 194, 198: the response
GeneratePromptResolved(call, prompt) ==
    /\ Quiet
    /\ call \in promptCalls
    /\ promptCalls' = promptCalls \ {call}
    /\ finalPrompt' = prompt
    /\ loadingPrompt' = FALSE
    /\ UNCHANGED <<idea, questions, answers, autoFillLoading, autoFillProgress,
                   loadingQuestions, error, run, schemaCalls, suggestCalls,
                   logs, hist, used, out>>

\* GeneratePromptRejected with a catch block that drops the error
GeneratePromptRejectedSilent(call, e) ==
    /\ Quiet
    /\ call \in promptCalls
    /\ promptCalls' = promptCalls \ {call}
    /\ loadingPrompt' = FALSE
    /\ UNCHANGED <<idea, questions, answers, finalPrompt, autoFillLoading,
                   autoFillProgress, loadingQuestions, error, run, schemaCalls,
                   suggestCalls, logs, hist, used, out>>

\* lines 195-198: catch and finally
GeneratePromptRejected(call, e) ==
    /\ Quiet
    /\ call \in promptCalls
    /\ promptCalls' = promptCalls \ {call}
    /\ error' = MessageOf(e, "Unknown error")
    /\ loadingPrompt' = FALSE
    /\ UNCHANGED <<idea, questions, answers, finalPrompt, autoFillLoading,
                   autoFillProgress, loadingQuestions, run, schemaCalls,
                   suggestCalls, logs, hist, used, out>>

\* the Clear button (App.tsx 422-427), drawn while finalPrompt is not empty
ClearPrompt ==
    /\ Quiet
    /\ used < MaxCommands
    /\ finalPrompt # ""
    /\ finalPrompt' = ""
    /\ used' = used + 1
    /\ UNCHANGED <<idea, questions, answers, autoFillLoading, autoFillProgress,
                   loadingQuestions, loadingPrompt, error, run, net, logs,
                   hist, out>>

Next ==
    \/ \E text \in IdeaTexts : SetIdea(text)
    \/ onGenerateQuestions
    \/ \E call \in schemaCalls, schema \in Schemas :
          GenerateQuestionsResolved(call, schema)
    \/ \E call \in schemaCalls, e \in Failures : GenerateQuestionsRejected(call, e)
    \/ UserEdit
    \/ onAutoFillAll
    \/ AutoFillSkip
    \/ AutoFillAsk
    \/ \E call \in suggestCalls : \E res \in SuggestResponses(call) :
          SuggestResolved(call, res)
    \/ \E call \in suggestCalls, e \in Failures : SuggestRejected(call, e)
    \/ AutoFillDone
    \/ onGeneratePrompt
    \/ \E call \in promptCalls, prompt \in Prompts :
          GeneratePromptResolved(call, prompt)
    \/ \E call \in promptCalls, e \in Failures : GeneratePromptRejected(call, e)
    \/ ClearPrompt

Spec == Init /\ [][Next]_vars

(***************************************************************************)
(* Scheduling.  The handler's synchronous code between two awaits runs to  *)
(* its end once started (RunStep), and the claims about termination assume *)
(* that every suggestAnswer request is eventually resolved or rejected     *)
(* (SuggestReturns).                                                       *)
(***************************************************************************)
RunStep == AutoFillSkip \/ AutoFillAsk \/ AutoFillDone

SuggestReturns ==
    \E call \in suggestCalls :
        \/ \E res \in SuggestResponses(call) : SuggestResolved(call, res)
        \/ \E e \in Failures : SuggestRejected(call, e)

SpecLive == Spec /\ WF_vars(RunStep) /\ WF_vars(SuggestReturns)

(***************************************************************************)
(* The pure functions on their own: cleanAnswers and requiredMissing       *)
(* applied to every schema of at most PureMaxQ questions and every store   *)
(* over their ids.                                                         *)
(***************************************************************************)
PureIds == {Pool[k].id : k \in 1..PureMaxQ}

PureValues ==
    {EmptyStr, Str(<<" ">>), Str(<<"x">>), Str(<<" ", "x">>), Null, Undefined,
     EmptyArr, Arr(<<"a">>), Arr(<<" ">>), Num(<<"0">>), Bool(FALSE), Bool(TRUE)}

RequiredFlags == {"true", "false", "unset"}

\* the k-th question has the k-th id; its type and required flag are free
PureSchemas ==
    UNION {
        {[k \in 1..n |-> Question(Pool[k].id, f[k][1], f[k][2])] :
            f \in [1..n -> QuestionTypes \X RequiredFlags]} :
        n \in 0..PureMaxQ}

PureStores ==
    UNION {[keys -> PureValues] : keys \in SUBSET PureIds}

PureInit ==
    /\ idea = <<>>
    /\ questions \in PureSchemas
    /\ answers \in PureStores
    /\ finalPrompt = ""
    /\ autoFillLoading = FALSE
    /\ autoFillProgress = [done |-> 0, total |-> 0]
    /\ loadingQuestions = FALSE
    /\ loadingPrompt = FALSE
    /\ error = NoError
    /\ run = IdleRun
    /\ schemaCalls = {}
    /\ suggestCalls = {}
    /\ promptCalls = {}
    /\ callLog = <<>>
    /\ mergeLog = <<>>
    /\ hist = NoHist
    /\ used = 0
    /\ out = NoOut

\* the debug panel (App.tsx 396): cleanAnswers(answers)
EvalCleanAnswers ==
    /\ out' = [op |-> "cleanAnswers", cleaned |-> cleanAnswers(answers),
               missing |-> <<>>]
    /\ UNCHANGED <<ui, run, net, logs, hist, used>>

\* the useMemo (App.tsx 74-89): requiredMissing
EvalRequiredMissing ==
    /\ out' = [op |-> "requiredMissing", cleaned |-> EmptyObj,
               missing |-> requiredMissing(questions, answers)]
    /\ UNCHANGED <<ui, run, net, logs, hist, used>>

PureNext ==
    \/ EvalCleanAnswers
    \/ EvalRequiredMissing

SpecPure == PureInit /\ [][PureNext]_vars

(***************************************************************************)
(* toggleMulti on its own: the state update of App.tsx 65-72 applied, again *)
(* and again, to a store whose entry for a multi_select question is any    *)
(* array of choices of at most ToggleMaxLen elements (duplicates included), *)
(* a value that is no array, or absent.                                    *)
(***************************************************************************)
ToggleQuestion == Pool[2]

ToggleValues ==
    {Arr(a) : a \in UNION {[1..n -> Range(Choices)] : n \in 0..ToggleMaxLen}}
    \cup {Null, Undefined, EmptyStr, Str(<<"s">>)}

ToggleStores ==
    UNION {[keys -> ToggleValues] : keys \in SUBSET {ToggleQuestion.id}}

ToggleInit ==
    /\ idea = <<>>
    /\ questions = <<ToggleQuestion>>
    /\ answers \in ToggleStores
    /\ finalPrompt = ""
    /\ autoFillLoading = FALSE
    /\ autoFillProgress = [done |-> 0, total |-> 0]
    /\ loadingQuestions = FALSE
    /\ loadingPrompt = FALSE
    /\ error = NoError
    /\ run = IdleRun
    /\ schemaCalls = {}
    /\ suggestCalls = {}
    /\ promptCalls = {}
    /\ callLog = <<>>
    /\ mergeLog = <<>>
    /\ hist = NoHist
    /\ used = 0
    /\ out = NoOut

\* setAnswers((prev) => ...) of toggleMulti; out remembers the store before
\* this toggle (prev) and before the first of a pair of toggles of the same
\* choice (before), and whether this toggle is the first or the second (n)
EvalToggleMulti(id, choice) ==
    LET second == out.op = "toggleMulti" /\ out.id = id /\ out.choice = choice
                  /\ out.n = 1
    IN  /\ answers' = Put(answers, id, Toggled(answers, id, choice))
        /\ out' = [op |-> "toggleMulti", id |-> id, choice |-> choice,
                   n |-> IF second THEN 2 ELSE 1,
                   before |-> IF second THEN out.before ELSE answers,
                   prev |-> answers]
        /\ UNCHANGED <<idea, questions, finalPrompt, autoFillLoading,
                       autoFillProgress, loadingQuestions, loadingPrompt, error,
                       run, net, logs, hist, used>>

ToggleNext ==
    \E k \in DOMAIN questions :
        \E c \in Range(questions[k].choices) : EvalToggleMulti(questions[k].id, c)

SpecToggle == ToggleInit /\ [][ToggleNext]_vars

(***************************************************************************)
(* Properties.                                                             *)
(***************************************************************************)
QIds(qs) == {qs[k].id : k \in DOMAIN qs}

EmptySentinels == {EmptyArr, EmptyStr, Null, Undefined}

\* the empty sentinel of a question type (spec section 3)
SentinelOf(type) ==
    CASE type = "multi_select" -> EmptyArr
      [] type = "boolean" -> Null
      [] OTHER -> EmptyStr

\* C1: in the state right after a successful schema load, the Answer Store's
\* keys are exactly the question ids of the loaded schema and each value is
\* the empty sentinel of its question's type ([] for multi_select, null for
\* boolean, "" for every other type).
C1_LoadSeedsSentinels ==
    [][(\E call \in schemaCalls, schema \in Schemas :
            GenerateQuestionsResolved(call, schema))
       => /\ DOMAIN answers' = QIds(questions')
          /\ \A k \in DOMAIN questions' :
                answers'[questions'[k].id] = SentinelOf(questions'[k].type)]_vars

\* C1 witness: a three-question schema with a multi_select and a boolean has
\* just been loaded and the store holds its three sentinels.
C1_Witness ==
    /\ ~loadingQuestions
    /\ Len(questions) = 3
    /\ \E k \in DOMAIN questions : questions[k].type = "multi_select"
    /\ \E k \in DOMAIN questions : questions[k].type = "boolean"
    /\ DOMAIN answers = QIds(questions)
    /\ \A k \in DOMAIN questions :
          answers[questions[k].id] = SentinelOf(questions[k].type)
    /\ run.pc = "idle"

\* C8: cleanAnswers(store) holds exactly the entries of the store whose value
\* is not an empty sentinel ([], "", null, undefined), each with the value the
\* store has for it.
C8_CleanedExact ==
    out.op = "cleanAnswers" =>
        /\ DOMAIN out.cleaned = {id \in DOMAIN answers : answers[id] \notin EmptySentinels}
        /\ \A id \in DOMAIN out.cleaned :
              /\ out.cleaned[id] = answers[id]
              /\ out.cleaned[id] \notin EmptySentinels

\* C8 witness: a store with a null entry has been cleaned and the entry is not
\* in the result.
C8_Witness ==
    /\ out.op = "cleanAnswers"
    /\ \E id \in DOMAIN answers : answers[id] = Null /\ id \notin DOMAIN out.cleaned

\* C9: requiredMissing never lists the id of a boolean question, whatever its
\* required flag and stored value.
C9_BooleanNeverMissing ==
    out.op = "requiredMissing" =>
        \A k \in DOMAIN questions :
            questions[k].type = "boolean" => questions[k].id \notin Range(out.missing)

\* C9 witness: requiredMissing was computed for a required boolean question
\* whose stored value is null, and did not list it.
C9_Witness ==
    /\ out.op = "requiredMissing"
    /\ \E k \in DOMAIN questions :
          /\ questions[k].type = "boolean"
          /\ questions[k].required = "true"
          /\ Get(answers, questions[k].id) = Null
          /\ questions[k].id \notin Range(out.missing)

\* a string of whitespace only (the empty string included)
Blank(chars) == \A k \in DOMAIN chars : chars[k] \in WhiteSpace

\* C10 as stated: requiredMissing is the set of required questions that are
\* multi_select with a value that is no collection or an empty one, or of
\* another non-boolean type with a value that is null, absent or a string that
\* is empty after trimming.
MissingAsStated(q, val) ==
    /\ q.required = "true"
    /\ \/ /\ q.type = "multi_select"
          /\ (val.t # "arr" \/ Len(val.v) = 0)
       \/ /\ q.type \notin {"multi_select", "boolean"}
          /\ (val \in {Null, Undefined} \/ (val.t = "str" /\ Blank(val.v)))

C10_AsStated ==
    out.op = "requiredMissing" =>
        Range(out.missing) =
            {questions[k].id : k \in {j \in DOMAIN questions :
                MissingAsStated(questions[j], Get(answers, questions[j].id))}}

\* C10 amended: as stated, except that for the non-boolean, non-multi_select
\* types the test is on the stringified value: also an array whose String()
\* form is blank (such as []) counts as missing.
MissingAmended(q, val) ==
    /\ q.required = "true"
    /\ \/ /\ q.type = "multi_select"
          /\ (val.t # "arr" \/ Len(val.v) = 0)
       \/ /\ q.type \notin {"multi_select", "boolean"}
          /\ \/ val \in {Null, Undefined}
             \/ val.t = "str" /\ Blank(val.v)
             \/ val.t = "arr" /\ (Len(val.v) = 0 \/ (Len(val.v) = 1 /\ Blank(val.v)))

C10_StringifiedBlank ==
    out.op = "requiredMissing" =>
        Range(out.missing) =
            {questions[k].id : k \in {j \in DOMAIN questions :
                MissingAmended(questions[j], Get(answers, questions[j].id))}}

\* C10 witness: a required text question whose stored value is the empty array
\* is reported missing.
C10_Witness ==
    /\ out.op = "requiredMissing"
    /\ \E k \in DOMAIN questions :
          /\ questions[k].type = "text"
          /\ questions[k].required = "true"
          /\ Get(answers, questions[k].id) = EmptyArr
          /\ questions[k].id \in Range(out.missing)

\* the question the suspended run is asking about
Asked == run.qs[run.i + 1]

\* the run's suggestion call resolves and its response is merged
MergeStep == run.pc = "awaiting" /\ run'.pc = "loop"

\* the run's suggestion call fails
FailStep == run.pc = "awaiting" /\ run'.pc = "aborted"

\* C2 as stated: a user edit to question A made while the run is suspended on
\* the suggestion call for another question B is still in the live store once
\* B's response has been merged (no schema load in between, and the response
\* is not itself for A).
C2_UserEditPreserved ==
    [][(MergeStep /\ ~hist.superseded)
       => \A id \in hist.edited \ {Asked.id, mergeLog'[Len(mergeLog')].id} :
             id \in DOMAIN answers' /\ answers'[id] = answers[id]]_vars

\* C3 as stated: once "Generate Questions" was clicked while a run was
\* suspended, no later step of that run writes the Answer Store or the
\* auto-fill progress.
C3_ReloadDiscardsRun ==
    [][(hist.superseded /\ Running /\ run' # run)
       => (answers' = answers /\ autoFillProgress' = autoFillProgress)]_vars

\* no later response of the run was merged under the same id
LastUnderItsId(k) ==
    \A j \in DOMAIN mergeLog : j > k => mergeLog[j].id # mergeLog[k].id

C5_OneCallAtATime ==
    /\ [](/\ Cardinality(suggestCalls) <= 1
          /\ \A call \in suggestCalls :
                /\ run.pc = "awaiting"
                /\ call.question = Asked
                /\ callLog # <<>> /\ callLog[Len(callLog)] = run.i
          /\ \A j, k \in DOMAIN callLog : j < k => callLog[j] < callLog[k])
    /\ [][(suggestCalls' \ suggestCalls # {})
          => (suggestCalls = {} /\ run.pc = "loop" /\ run'.pc = "awaiting")]_vars

\* C5 witness: the third call of a run is outstanding after two earlier
\* calls resolved.
C5_Witness ==
    /\ Cardinality(suggestCalls) = 1
    /\ callLog = <<0, 1, 2>>
    /\ Len(mergeLog) = 2

\* the value last merged under id by the current run
LastMerged(id) ==
    LET ks == {k \in DOMAIN mergeLog : mergeLog[k].id = id}
    IN  mergeLog[CHOOSE k \in ks : \A j \in ks : j <= k].value

\* every response merged so far carried the id of the question asked
Echoed ==
    \A k \in DOMAIN mergeLog : mergeLog[k].id = run.qs[mergeLog[k].i + 1].id

\* C6 as stated: when the call for index k of an N-question schema that had no
\* answers fails, done = k, total = N, the last-error slot is set and the
\* store holds the k values merged for indices 0..k-1 (stated for the
\* non-empty values, and for the runs that no schema load interrupted and
\* whose responses carried the ids of the questions asked).
C6_AsStated ==
    [][(FailStep /\ hist.blank /\ ~hist.superseded /\ Echoed)
       => /\ autoFillProgress' = [done |-> run.i, total |-> Len(run.qs)]
          /\ error' # NoError
          /\ Len(mergeLog) = run.i
          /\ \A k \in DOMAIN mergeLog :
                mergeLog[k].value \notin EmptySentinels =>
                   /\ mergeLog[k].id \in DOMAIN answers'
                   /\ answers'[mergeLog[k].id] = mergeLog[k].value]_vars

\* C6 amended: when the call for index k of N fails, the run halts with
\* done = k and total = N, the last-error slot set and no call outstanding,
\* and the failure leaves the store as it was.  The working copy holds, under
\* each id a response carried, the value last merged under it (k values when
\* no answer pre-existed and every response carried the id of its question).
\* Unless a schema load came during the run, the store is that working copy
\* save for the ids the user edited since the failed call was issued.
C6_FailureKeepsMerges ==
    [][FailStep
       => /\ autoFillProgress' = [done |-> run.i, total |-> Len(run.qs)]
          /\ error' # NoError
          /\ ~autoFillLoading'
          /\ suggestCalls' = {}
          /\ answers' = answers
          /\ \A k \in DOMAIN mergeLog :
                run.working[mergeLog[k].id] = LastMerged(mergeLog[k].id)
          /\ (hist.blank /\ Echoed) =>
                /\ Len(mergeLog) = run.i
                /\ \A k \in DOMAIN mergeLog :
                      run.working[mergeLog[k].id] = mergeLog[k].value
          /\ ~hist.superseded =>
                /\ DOMAIN answers' = DOMAIN run.working
                /\ \A id \in DOMAIN run.working \ hist.edited :
                      answers'[id] = run.working[id]]_vars

\* C6 witness: a run over three unanswered questions was aborted at index 2:
\* progress 2 of 3, the error set, two answers in the store.
C6_Witness ==
    /\ run.pc = "aborted"
    /\ autoFillProgress = [done |-> 2, total |-> 3]
    /\ error # NoError
    /\ ~autoFillLoading
    /\ Cardinality({id \in DOMAIN answers : answers[id] \notin EmptySentinels}) = 2

\* C7: while a run is under way total is the length of the schema it started
\* on and done is the number of questions it has processed; a step of the run
\* leaves total alone and raises done by one exactly when it processes a
\* question (skipped or filled); the run starts at done = 0 and, when the loop
\* ends without a failure, ends with {done: N, total: N}.
C7_ProgressMonotonic ==
    /\ [](Running => autoFillProgress = [done |-> run.i, total |-> Len(run.qs)])
    /\ [][(~Running /\ Running')
          => autoFillProgress' = [done |-> 0, total |-> Len(questions)]]_vars
    /\ [][(Running /\ Running')
          => /\ autoFillProgress'.total = autoFillProgress.total
             /\ autoFillProgress'.done = autoFillProgress.done + (run'.i - run.i)
             /\ run'.i - run.i \in {0, 1}]_vars
    /\ [][(run.pc = "loop" /\ run'.pc = "completed")
          => /\ run.i = Len(run.qs)
             /\ autoFillProgress' = [done |-> Len(run.qs), total |-> Len(run.qs)]]_vars

\* C7 witness: a run over three questions completed with progress 3 of 3.
C7_Witness ==
    /\ run.pc = "completed"
    /\ autoFillProgress = [done |-> 3, total |-> 3]
    /\ ~autoFillLoading

\* the choices a stored value selects; a value that is no array selects none
\* (toggleMulti reads it as [])
ChoiceSet(val) == IF IsArray(val) THEN Range(val.v) ELSE {}

NoDuplicates(val) ==
    IsArray(val) => \A j, k \in DOMAIN val.v : j # k => val.v[j] # val.v[k]

\* C11: after toggleMulti(id, choice) was applied twice in a row the value
\* stored for id selects the same set of choices as before the two toggles,
\* and a single toggle of a value without duplicates stores an array without
\* duplicates, in which the choice is present exactly if it was not before;
\* the other entries of the store are left alone.
C11_DoubleToggle ==
    out.op = "toggleMulti" =>
        /\ IsArray(answers[out.id])
        /\ DOMAIN answers = DOMAIN out.prev \cup {out.id}
        /\ \A id \in DOMAIN out.prev \ {out.id} : answers[id] = out.prev[id]
        /\ out.n = 2 =>
              ChoiceSet(answers[out.id]) = ChoiceSet(Get(out.before, out.id))
        /\ NoDuplicates(Get(out.prev, out.id)) =>
              /\ NoDuplicates(answers[out.id])
              /\ (out.choice \in ChoiceSet(answers[out.id]))
                    = (out.choice \notin ChoiceSet(Get(out.prev, out.id)))

\* C11 witness: ["a", "b"] was toggled twice on "a" and now holds ["b", "a"]:
\* the same choices in another order.
C11_Witness ==
    /\ out.op = "toggleMulti"
    /\ out.n = 2
    /\ out.choice = "a"
    /\ Get(out.before, out.id) = Arr(<<"a", "b">>)
    /\ answers[out.id] = Arr(<<"b", "a">>)

\* C12: onAutoFillAll invoked while the trimmed idea is empty or the schema is
\* empty issues no suggestion call and leaves the Answer Store, the auto-fill
\* phase and loading flag, the auto-fill progress and the last-error slot as
\* they were.
C12_NoOpWithoutIdeaOrSchema ==
    [][(onAutoFillAll /\ (Trim(idea) = <<>> \/ Len(questions) = 0))
       => /\ suggestCalls' = suggestCalls
          /\ answers' = answers
          /\ run' = run
          /\ autoFillLoading' = autoFillLoading
          /\ autoFillProgress' = autoFillProgress
          /\ error' = error]_vars

\* C12 witness: with the idea still empty the only command that can have been
\* issued is "Auto-fill all", and it was: nothing but the command count moved.
C12_Witness ==
    /\ idea = <<>>
    /\ used >= 1
    /\ questions = <<>>
    /\ answers = EmptyObj
    /\ run = IdleRun
    /\ ~autoFillLoading
    /\ autoFillProgress = [done |-> 0, total |-> 0]
    /\ error = NoError
    /\ suggestCalls = {}

\* a pending generateQuestions call fails
SchemaFailStep ==
    \E call \in schemaCalls, e \in Failures : GenerateQuestionsRejected(call, e)

\* a pending generatePrompt call fails
PromptFailStep ==
    \E call \in promptCalls, e \in Failures : GeneratePromptRejected(call, e)

\* C13 as stated: when the schema fetch fails, the schema and the answers
\* that existed when "Generate Questions" was clicked are there afterwards;
\* when the prompt call fails the Answer Store is unchanged and no call of
\* any kind is issued by the failure.
C13_FailureKeepsState ==
    /\ [][SchemaFailStep
          => /\ questions' = hist.prior.questions
             /\ answers' = hist.prior.answers
             /\ schemaCalls' = {}]_vars
    /\ [][PromptFailStep
          => /\ answers' = answers
             /\ questions' = questions
             /\ promptCalls' = {}
             /\ schemaCalls' = schemaCalls
             /\ suggestCalls' = suggestCalls]_vars

\* C14: a generatePrompt call is issued only by a step taken in a state where
\* requiredMissing is empty for the current schema and store; it is the only
\* new call, and the answers it carries are cleanAnswers of the store of that
\* state (and the idea it carries the trimmed idea).
C14_PromptGated ==
    [][(promptCalls' # promptCalls /\ promptCalls' \ promptCalls # {})
       => /\ requiredMissing(questions, answers) = <<>>
          /\ promptCalls' \ promptCalls =
                {[idea |-> Trim(idea), answers |-> cleanAnswers(answers)]}
          /\ answers' = answers]_vars

\* C14 witness: a prompt call is out for a schema with a required question,
\* carrying the answer the user typed for it.
C14_Witness ==
    /\ loadingPrompt
    /\ \E k \in DOMAIN questions : IsRequired(questions[k])
    /\ \E call \in promptCalls :
          /\ call.answers = cleanAnswers(answers)
          /\ \E k \in DOMAIN questions :
                /\ IsRequired(questions[k])
                /\ questions[k].id \in DOMAIN call.answers

\* a run begins: the handler passes its early return
RunStarts == onAutoFillAll /\ Trim(idea) # <<>> /\ Len(questions) > 0

\* C15: a run that is under way (in its loop or suspended on a call) keeps
\* autoFillLoading set, which disables the button, whatever happens to the
\* schema meanwhile; a run begins only in a state where no run is under way
\* and no suggestion call is outstanding, so there is never a second run.
C15_SingleFlight ==
    /\ [](Running => autoFillLoading)
    /\ [](suggestCalls # {} => Running)
    /\ [][RunStarts => (~Running /\ suggestCalls = {} /\ Running')]_vars
    /\ [][(Running /\ Running')
          => (run'.qs = run.qs /\ run'.idea = run.idea /\ run'.i >= run.i)]_vars

\* C15 witness: a new schema was loaded while a run of the old one is
\* suspended on its call; autoFillLoading still disables the button although
\* the idea and the schema would let a run begin.
C15_Witness ==
    /\ run.pc = "awaiting"
    /\ hist.superseded
    /\ ~loadingQuestions
    /\ Len(questions) > 0
    /\ questions # run.qs
    /\ Trim(idea) # <<>>
    /\ autoFillLoading

\* C16 as stated: whenever a schema is loaded every question id of it has an
\* entry in the Answer Store, and no step that keeps the schema removes the
\* entry of one of its questions.
C16_EveryQuestionHasEntry ==
    /\ [](Len(questions) > 0 => QIds(questions) \subseteq DOMAIN answers)
    /\ [][(Len(questions) > 0 /\ questions' = questions)
          => (QIds(questions) \cap DOMAIN answers) \subseteq DOMAIN answers']_vars

\* the loop is at a question it has yet to decide about
AtQuestion == run.pc = "loop" /\ run.i < Len(run.qs)

\* the question the loop is at is one the claim says a call is issued for
Unanswered ==
    \/ Asked.type = "boolean"
    \/ Get(run.working, Asked.id) \in EmptySentinels

\* C17: the loop's step at a question issues a suggestion call, for that
\* question and with the cleaned working copy, exactly when the question is a
\* boolean or its value in the working copy is [], "", null or undefined, and
\* then suspends without counting progress; at any other question it issues
\* no call, leaves the store alone and reports one more question done.  No
\* other step issues a suggestion call.
C17_CallIffUnanswered ==
    /\ [][(AtQuestion /\ run' # run)
          => IF Unanswered
             THEN /\ suggestCalls' = suggestCalls \cup
                        {[idea |-> run.idea, question |-> Asked,
                          current_answers |-> cleanAnswers(run.working)]}
                  /\ suggestCalls' # suggestCalls
                  /\ run' = [run EXCEPT !.pc = "awaiting"]
                  /\ autoFillProgress' = autoFillProgress
             ELSE /\ suggestCalls' = suggestCalls
                  /\ run' = [run EXCEPT !.i = @ + 1]
                  /\ answers' = answers
                  /\ autoFillProgress' =
                        [done |-> run.i + 1, total |-> Len(run.qs)]]_vars
    /\ [][(suggestCalls' \ suggestCalls # {}) => (AtQuestion /\ Unanswered)]_vars

\* C17 witness: the run skipped its first question, which the user had
\* answered, without a call, and is now asking about a boolean question
\* although the working copy holds a value for it.
C17_Witness ==
    /\ run.pc = "awaiting"
    /\ suggestCalls # {}
    /\ Asked.type = "boolean"
    /\ Get(run.working, Asked.id) \notin EmptySentinels
    /\ callLog # <<>>
    /\ callLog[1] > 0
    /\ autoFillProgress.done = run.i

\* C18: a run that is under way eventually returns, completed or aborted;
\* whenever the last run has returned autoFillLoading is false; a run ends
\* aborted by the steps in which its suggestion call fails and by no other,
\* and completed by the steps in which its loop runs out of questions.
C18_RunTerminates ==
    /\ Running ~> (run.pc \in {"completed", "aborted"})
    /\ [](run.pc \in {"completed", "aborted"} => ~autoFillLoading)
    /\ [][(run' # run /\ run'.pc = "aborted")
          <=> (\E call \in suggestCalls, e \in Failures : SuggestRejected(call, e))]_vars
    /\ [][(run' # run /\ run'.pc = "completed")
          <=> (AutoFillDone /\ suggestCalls = {})]_vars

\* C18 witness: a run over three questions returned aborted at its first
\* call, and the loading flag is down.
C18_Witness ==
    /\ run.pc = "aborted"
    /\ ~autoFillLoading
    /\ autoFillProgress = [done |-> 0, total |-> 3]
    /\ error # NoError
    /\ suggestCalls = {}

\* a remote call of one of the three operations fails
AnyFailStep ==
    \/ SchemaFailStep
    \/ PromptFailStep
    \/ \E call \in suggestCalls, e \in Failures : SuggestRejected(call, e)

\* one of the three operations is started (for auto-fill: past its early
\* return)
AnyStartStep == onGenerateQuestions \/ RunStarts \/ onGeneratePrompt

\* C19: every failure of a remote call puts a message in the last-error
\* slot; every start of a schema load, of an auto-fill run that is no no-op,
\* or of a prompt generation empties it; and no other step writes the slot,
\* so that it is non-empty from a failure until the next start.
C19_ErrorSlot ==
    /\ [][AnyFailStep => (error' # NoError /\ error' # "")]_vars
    /\ [][AnyStartStep => error' = NoError]_vars
    /\ [][(error' # error) => (AnyFailStep \/ AnyStartStep)]_vars

\* C19 witness: a prompt generation failed for the loaded schema, nothing
\* was started since, and the slot holds the message.
C19_Witness ==
    /\ error # NoError
    /\ Len(questions) > 0
    /\ run.pc = "idle"
    /\ ~loadingQuestions
    /\ ~loadingPrompt
    /\ promptCalls = {}
    /\ finalPrompt = ""

\* ids under which the current run has merged a response
MergedIds == {mergeLog[k].id : k \in DOMAIN mergeLog}

\* the questions of the run that were answered when it started: not boolean,
\* never written by the run, and holding a value in its working copy
AnsweredAtStart ==
    {run.qs[k].id : k \in {j \in DOMAIN run.qs :
        /\ run.qs[j].type # "boolean"
        /\ run.qs[j].id \notin MergedIds
        /\ Get(run.working, run.qs[j].id) \notin EmptySentinels}}

\* C20 as stated: in a run that no user edit and no schema load accompanies,
\* merging a response leaves every question that was answered when the run
\* started with the value it had then, whatever id and value the response
\* carries.
C20_AnsweredUntouched ==
    [][(MergeStep /\ ~hist.superseded /\ hist.edited = {} /\ answers = run.working)
       => \A id \in AnsweredAtStart :
             /\ id \in DOMAIN answers'
             /\ answers'[id] = answers[id]]_vars

=============================================================================
